---- MODULE Spec2Model ----
(***************************************************************************)
(* Model of main.py: a Flask movie recommender.  A fixed movie list is     *)
(* vectorised once at import time (TF-IDF), an all-pairs cosine similarity *)
(* matrix is precomputed, and two routes (GET /, POST /recommend) rank the *)
(* movies by movie id or by free text.                                     *)
(*                                                                         *)
(* Text is modelled as words: a movie's text is the set of its words, a    *)
(* form field is a sequence of symbols, each symbol being a whitespace     *)
(* character, a digit, a letter or a whole word.  TF-IDF weights are       *)
(* abstracted to term presence; a cosine is kept as the exact fraction     *)
(* <<dot^2, |u|^2 * |v|^2>> and compared by cross multiplication, so the   *)
(* order of the scores is the order of the cosines.                        *)
(***************************************************************************)
EXTENDS Integers, Sequences, FiniteSets, TLC

\* ---------------------------------------------------------------- bounds
MaxItems    == 6    \* largest corpus built at start-up
ConcItems   == 2    \* largest corpus in the concurrent specification
NumThreads  == 2    \* request threads of the server
MaxTopN     == 7    \* largest top_n of a direct call

\* ------------------------------------------------------ program constants
HANDLER_TOP_N == 5  \* top_n=5 in recommend()

\* ------------------------------------------------------- values and words
NoRequest  == [method |-> "none"]
NoResponse == [kind |-> "none"]
NoCall     == [fn |-> "none"]
SPACE     == " "
StopWords == {"the"}                       \* stop_words="english"
Texts     == { {"the"}, {"space"}, {"space", "war"} }
Threads   == 1..NumThreads

VARIABLES
    movies,             \* the module-level list of movie dicts
    df,                 \* the DataFrame: movies plus the "text" column
    vectorizer,         \* the fitted TfidfVectorizer (its vocabulary)
    tfidf_matrix,       \* one term vector per movie
    cosine_sim_matrix,  \* all-pairs cosine similarity
    argsort_ties,       \* how this build's numpy argsort orders equal keys
    pc,                 \* per thread: position in the request handler
    request,            \* per thread: the form of the request being served
    movie_id,           \* per thread: local movie_id of recommend()
    query,              \* per thread: local query of recommend()
    results,            \* per thread: local results of recommend()
    response,           \* per thread: what the handler answered
    ret                 \* record of the last direct call of a helper

corpus == <<movies, df, vectorizer, tfidf_matrix, cosine_sim_matrix>>
locals == <<pc, request, movie_id, query, results, response>>
vars   == <<movies, df, vectorizer, tfidf_matrix, cosine_sim_matrix,
            argsort_ties, pc, request, movie_id, query, results, response, ret>>

\* ------------------------------------------------------------ sequences
Min(a, b) == IF a < b THEN a ELSE b

Reverse(s) == [i \in 1..Len(s) |-> s[Len(s) + 1 - i]]

\* the slice with its upper end included
SliceInclusive(s, lo, hi) == SubSeq(s, lo + 1, Min(hi + 1, Len(s)))

\* Python slice s[lo:hi] for 0 <= lo, 0 <= hi (0-based, hi exclusive)
Slice(s, lo, hi) == SubSeq(s, lo + 1, Min(hi, Len(s)))

\* ------------------------------------------------------------- the build
\* a cosine as an exact fraction <<numerator, denominator>>, denominator > 0
Zero == <<0, 1>>
ScoreGt(a, b) == a[1] * b[2] > b[1] * a[2]
ScoreEq(a, b) == a[1] * b[2] = b[1] * a[2]
ScoreGe(a, b) == a[1] * b[2] >= b[1] * a[2]

\* the vectorizer's analyzer: words of a text that are not stop words
analyzer(words) == words \ StopWords

\* df["text"] = title + " " + genres + " " + overview
BuildDf(ms) == [i \in 1..Len(ms) |-> [id |-> ms[i].id, words |-> ms[i].words,
                                       text |-> ms[i].words]]

\* TfidfVectorizer(...).fit: the vocabulary is every analysed term of the corpus
Fit(d) == [vocabulary |-> UNION { analyzer(d[i].text) : i \in 1..Len(d) }]

\* vectorizer.transform: terms outside the fitted vocabulary are dropped
Transform(v, words) == analyzer(words) \cap v.vocabulary

\* cosine of two term vectors; a zero vector has similarity 0 to everything
Cosine(u, v) ==
    IF u = {} \/ v = {} THEN Zero
    ELSE <<Cardinality(u \cap v) * Cardinality(u \cap v),
           Cardinality(u) * Cardinality(v)>>

\* cosine_similarity(X, Y): one row per row of X, one column per row of Y
cosine_similarity(X, Y) ==
    [i \in 1..Len(X) |-> [j \in 1..Len(Y) |-> Cosine(X[i], Y[j])]]

\* the movie lists the model starts from: ids 0..n-1 in list order
Corpora(n) ==
    UNION { { [i \in 1..k |-> [id |-> i - 1, words |-> w[i]]] :
                w \in [1..k -> Texts] } : k \in 1..n }

\* ---------------------------------------------------------------- sorting
\* enumerate(row): the (index, score) pairs in index order
enumerate(row) == [i \in 1..Len(row) |-> <<i, row[i]>>]

\* numpy's sort behind argsort: ascending by score.  The default kind is not
\* stable: equal scores come out in index order on the insertion-sort path
\* ("ascending") and may come out otherwise on the vectorised path
\* ("descending"); which one is fixed per build (argsort_ties).
RECURSIVE InsertAsc(_, _, _)
InsertAsc(s, p, ties) ==
    IF s = <<>> THEN <<p>>
    ELSE IF ScoreGt(p[2], s[1][2]) \/ (ScoreEq(p[2], s[1][2]) /\ ties = "ascending")
         THEN <<s[1]>> \o InsertAsc(Tail(s), p, ties)
    ELSE <<p>> \o s

RECURSIVE SortAsc(_, _)
SortAsc(s, ties) ==
    IF s = <<>> THEN <<>>
    ELSE InsertAsc(SortAsc(SubSeq(s, 1, Len(s) - 1), ties), s[Len(s)], ties)

\* an ascending sort turned around: equal scores end in reverse index order
sorted_then_reversed(s) == Reverse(SortAsc(s, "ascending"))

\* sorted(..., key=score, reverse=True): stable, equal scores keep their order
RECURSIVE InsertDesc(_, _)
InsertDesc(s, p) ==
    IF s = <<>> THEN <<p>>
    ELSE IF ScoreGe(s[1][2], p[2]) THEN <<s[1]>> \o InsertDesc(Tail(s), p)
    ELSE <<p>> \o s

RECURSIVE sorted_reverse(_)
sorted_reverse(s) ==
    IF s = <<>> THEN <<>>
    ELSE InsertDesc(sorted_reverse(SubSeq(s, 1, Len(s) - 1)), s[Len(s)])

\* sims.argsort(): the indices in ascending order of score
argsort(sims) ==
    LET s == SortAsc(enumerate(sims), argsort_ties)
    IN  [i \in 1..Len(s) |-> s[i][1]]

\* df.iloc[top_indices].to_dict(orient="records")
iloc_records(top_indices) == [k \in 1..Len(top_indices) |-> df[top_indices[k]]]

\* ---------------------------------------------------------------- helpers
Ids == { df[i].id : i \in 1..Len(df) }

\* df.index[df["id"] == movie_id][0]
IndexOfId(id) == CHOOSE i \in 1..Len(df) :
                    /\ df[i].id = id
                    /\ \A j \in 1..(i - 1) : df[j].id # id

\* sim_scores after line 46 of recommend_by_movie
SimScoresOf(idx) == sorted_reverse(enumerate(cosine_sim_matrix[idx]))

\* top_indices of recommend_by_movie: sim_scores[1 : top_n + 1]
TopIndicesByMovie(idx, top_n) ==
    LET sl == Slice(SimScoresOf(idx), 1, top_n + 1)
    IN  [k \in 1..Len(sl) |-> sl[k][1]]

\* the ranking without the membership test: an unknown id ranks as row 0
recommend_by_movie_unchecked(id, top_n) ==
    iloc_records(TopIndicesByMovie(IF id \in Ids THEN IndexOfId(id) ELSE 1, top_n))

recommend_by_movie(id, top_n) ==
    IF id \notin Ids THEN <<>>
    ELSE iloc_records(TopIndicesByMovie(IndexOfId(id), top_n))

\* the words of a field: its symbols that are not whitespace
Tokens(s) == { s[i] : i \in 1..Len(s) } \ {SPACE}

\* sims of recommend_by_text: cosine_similarity(q_vec, tfidf_matrix).flatten()
TextSims(q) ==
    cosine_similarity(<<Transform(vectorizer, Tokens(q))>>, tfidf_matrix)[1]

\* the ranking without [::-1]: the lowest scores first
TopIndicesByTextAscending(q, top_n) == Slice(argsort(TextSims(q)), 0, top_n)

\* top_indices of recommend_by_text: sims.argsort()[::-1][:top_n]
TopIndicesByText(q, top_n) == Slice(Reverse(argsort(TextSims(q))), 0, top_n)

recommend_by_text(q, top_n) == iloc_records(TopIndicesByText(q, top_n))

\* the ranking sorting the matrix row itself, in place
MatrixRowSortedInPlace(m, idx) ==
    LET srt == sorted_reverse(enumerate(m[idx]))
    IN  [m EXCEPT ![idx] = [k \in 1..Len(srt) |-> srt[k][2]]]

\* the similarity matrix after a ranking by movie: list(enumerate(...)) and
\* sorted() build new lists, the matrix row is not written
MatrixAfterRanking(m, idx) == m

\* ------------------------------------------------------------------ Init
Idle == [t \in Threads |-> "idle"]
NoLocals ==
    /\ pc = Idle
    /\ request  = [t \in Threads |-> NoRequest]
    /\ movie_id = [t \in Threads |-> <<>>]
    /\ query    = [t \in Threads |-> <<>>]
    /\ results  = [t \in Threads |-> <<>>]
    /\ response = [t \in Threads |-> NoResponse]

Build(n) ==
    /\ movies \in Corpora(n)
    /\ df = BuildDf(movies)
    /\ vectorizer = Fit(df)
    /\ vectorizer.vocabulary # {}      \* fit raises on an empty vocabulary
    /\ tfidf_matrix = [i \in 1..Len(df) |-> Transform(vectorizer, df[i].text)]
    /\ cosine_sim_matrix = cosine_similarity(tfidf_matrix, tfidf_matrix)
    /\ argsort_ties \in {"ascending", "descending"}

Init ==
    /\ Build(MaxItems)
    /\ NoLocals
    /\ ret = NoCall

\* ---------------------------------------------------------- form parsing
\* str.strip(): leading and trailing whitespace removed
RECURSIVE lstrip(_)
lstrip(s) == IF s # <<>> /\ s[1] = SPACE THEN lstrip(Tail(s)) ELSE s

strip(s) == Reverse(lstrip(Reverse(lstrip(s))))

Digits == <<"0", "1", "2", "3", "4", "5", "6", "7", "8", "9">>
IsDigit(c) == \E d \in 1..Len(Digits) : Digits[d] = c
DigitVal(c) == (CHOOSE d \in 1..Len(Digits) : Digits[d] = c) - 1

RECURSIVE DecimalValue(_)
DecimalValue(s) ==
    IF s = <<>> THEN 0
    ELSE Len(Digits) * DecimalValue(SubSeq(s, 1, Len(s) - 1)) + DigitVal(s[Len(s)])

\* int(s): surrounding whitespace is ignored, then digits only; anything
\* else raises ValueError
IntRaises(s) ==
    LET t == strip(s)
    IN  t = <<>> \/ \E i \in 1..Len(t) : ~IsDigit(t[i])

int(s) == DecimalValue(strip(s))

\* a form is the set of its <<name, value>> fields
\* request.form.get(key, "")
FormGet(form, key) ==
    IF \E f \in form : f[1] = key
    THEN (CHOOSE f \in form : f[1] = key)[2] ELSE <<>>

\* the movie_id fields posted: empty, the id of a movie, an unknown id,
\* a non-integer, whitespace only, an id inside whitespace
IdStrings ==
    { <<>>, <<"1">>, <<"1", "1">>, <<"x">>, <<SPACE>>, <<SPACE, "1", SPACE>> }

\* the query fields posted: empty, whitespace only, a word, a stop word,
\* a word inside whitespace, two words
QueryStrings ==
    { <<>>, <<SPACE>>, <<"space">>, <<"the">>, <<SPACE, "space", SPACE>>,
      <<"space", SPACE, "war">> }

\* a form carries each of the two fields or omits it
Forms ==
    { m \cup q : m \in {{}} \cup { {<<"movie_id", s>>} : s \in IdStrings },
                 q \in {{}} \cup { {<<"query", s>>} : s \in QueryStrings } }

\* ------------------------------------------------------- request handlers
\* GET /: index()
Index(t) ==
    /\ pc[t] = "idle"
    /\ pc' = [pc EXCEPT ![t] = "done"]
    /\ request'  = [request EXCEPT ![t] = [method |-> "GET", path |-> "/"]]
    /\ movie_id' = [movie_id EXCEPT ![t] = <<>>]
    /\ query'    = [query EXCEPT ![t] = <<>>]
    /\ results'  = [results EXCEPT ![t] = <<>>]
    /\ response' = [response EXCEPT ![t] =
                      [kind |-> "render", page |-> "index", query |-> <<>>]]
    /\ UNCHANGED <<corpus, argsort_ties, ret>>

\* POST /recommend, lines 126-128: read the form
Receive(t, forms) ==
    /\ pc[t] = "idle"
    /\ \E f \in forms :
          /\ request'  = [request EXCEPT ![t] =
                            [method |-> "POST", path |-> "/recommend", form |-> f]]
          /\ movie_id' = [movie_id EXCEPT ![t] = FormGet(f, "movie_id")]
          /\ query'    = [query EXCEPT ![t] = strip(FormGet(f, "query"))]
    /\ results'  = [results EXCEPT ![t] = <<>>]
    /\ response' = [response EXCEPT ![t] = NoResponse]
    /\ pc' = [pc EXCEPT ![t] = "try"]
    /\ UNCHANGED <<corpus, argsort_ties, ret>>

\* results when the try block of recommend() ends, from the locals
TryResults(mid, q, res) ==
    IF mid # <<>> /\ IntRaises(mid) THEN <<>>                 \* except branch
    ELSE LET r1 == IF mid # <<>>
                   THEN recommend_by_movie(int(mid), HANDLER_TOP_N) ELSE res
         IN  IF q # <<>> THEN recommend_by_text(q, HANDLER_TOP_N) ELSE r1

\* POST /recommend, lines 130-137: the try block
TryBlock(t) ==
    /\ pc[t] = "try"
    /\ results' = [results EXCEPT ![t] = TryResults(movie_id[t], query[t], results[t])]
    /\ cosine_sim_matrix' =
          IF movie_id[t] # <<>> /\ ~IntRaises(movie_id[t]) /\ int(movie_id[t]) \in Ids
          THEN MatrixAfterRanking(cosine_sim_matrix, IndexOfId(int(movie_id[t])))
          ELSE cosine_sim_matrix
    /\ pc' = [pc EXCEPT ![t] = "respond"]
    /\ UNCHANGED <<movies, df, vectorizer, tfidf_matrix, argsort_ties,
                   request, movie_id, query, response, ret>>

\* the answer redirecting as soon as either field is missing
AnswerRedirectEither(mid, q, res) ==
    IF mid = <<>> \/ q = <<>>
    THEN [kind |-> "redirect", location |-> "index"]
    ELSE IF IntRaises(mid)
    THEN [kind |-> "error", exception |-> "ValueError"]
    ELSE [kind |-> "render", page |-> "results", results |-> res,
          selected_movie |-> <<int(mid)>>, query |-> q]

\* what lines 139-143 of recommend() answer, from the locals
Answer(mid, q, res) ==
    IF mid = <<>> /\ q = <<>>
    THEN [kind |-> "redirect", location |-> "index"]
    ELSE IF mid # <<>> /\ IntRaises(mid)
    THEN [kind |-> "error", exception |-> "ValueError"]
    ELSE [kind |-> "render", page |-> "results", results |-> res,
          selected_movie |-> IF mid # <<>> THEN <<int(mid)>> ELSE <<>>,
          query |-> q]

\* POST /recommend, lines 139-143: redirect or render
Respond(t) ==
    /\ pc[t] = "respond"
    /\ response' = [response EXCEPT ![t] = Answer(movie_id[t], query[t], results[t])]
    /\ pc' = [pc EXCEPT ![t] = "done"]
    /\ UNCHANGED <<corpus, argsort_ties, request, movie_id, query, results, ret>>

\* the response is sent and the thread is free for the next request
Finish(t) ==
    /\ pc[t] = "done"
    /\ pc' = [pc EXCEPT ![t] = "idle"]
    /\ request'  = [request EXCEPT ![t] = NoRequest]
    /\ movie_id' = [movie_id EXCEPT ![t] = <<>>]
    /\ query'    = [query EXCEPT ![t] = <<>>]
    /\ results'  = [results EXCEPT ![t] = <<>>]
    /\ response' = [response EXCEPT ![t] = NoResponse]
    /\ UNCHANGED <<corpus, argsort_ties, ret>>

\* ------------------------------------------------------------ direct calls
CallIds == 0..MaxItems
TopNs == 0..MaxTopN

CallRecommendByMovie ==
    /\ ret = NoCall
    /\ \E id \in CallIds, n \in TopNs :
          /\ ret' = [fn |-> "recommend_by_movie", arg |-> id, top_n |-> n,
                     value |-> recommend_by_movie(id, n)]
          /\ cosine_sim_matrix' =
                IF id \in Ids THEN MatrixAfterRanking(cosine_sim_matrix, IndexOfId(id))
                ELSE cosine_sim_matrix
    /\ UNCHANGED <<movies, df, vectorizer, tfidf_matrix, argsort_ties, locals>>

CallRecommendByText ==
    /\ ret = NoCall
    /\ \E q \in QueryStrings, n \in TopNs :
          ret' = [fn |-> "recommend_by_text", arg |-> q, top_n |-> n,
                  value |-> recommend_by_text(q, n)]
    /\ UNCHANGED <<corpus, argsort_ties, locals>>

\* the caller drops the returned list
Return ==
    /\ ret # NoCall
    /\ ret' = NoCall
    /\ UNCHANGED <<corpus, argsort_ties, locals>>

\* ------------------------------------------------------- specifications
\* the server handling one request at a time
Next ==
    \/ Index(1)
    \/ Receive(1, Forms)
    \/ TryBlock(1)
    \/ Respond(1)
    \/ Finish(1)

Spec == Init /\ [][Next]_vars

\* direct calls of the two ranking helpers, any id, query and top_n
NextRank ==
    \/ CallRecommendByMovie
    \/ CallRecommendByText
    \/ Return

SpecRank == Init /\ [][NextRank]_vars

\* the requests of the concurrent specification: one form per branch
ConcForms ==
    { {<<"movie_id", <<"1">>>>},
      {<<"query", <<"space">>>>},
      {<<"movie_id", <<"1">>>>, <<"query", <<"space">>>>},
      {<<"movie_id", <<"1", "1">>>>},
      {<<"movie_id", <<"x">>>>, <<"query", <<"space">>>>},
      {<<"movie_id", <<>>>>, <<"query", <<SPACE>>>>} }

InitConc ==
    /\ Build(ConcItems)
    /\ NoLocals
    /\ ret = NoCall

\* request threads interleaved step by step
NextConc ==
    \E t \in Threads :
        \/ Index(t)
        \/ Receive(t, ConcForms)
        \/ TryBlock(t)
        \/ Respond(t)
        \/ Finish(t)

SpecConc == InitConc /\ [][NextConc]_vars

\* ------------------------------------------------------------ properties
N == Len(df)

\* thread t has answered a POST /recommend
Served(t) == pc[t] = "done" /\ request[t].method = "POST"
RawId(t)    == FormGet(request[t].form, "movie_id")
RawQuery(t) == FormGet(request[t].form, "query")

\* a field that is empty or holds whitespace only
IsBlank(s) == \A i \in 1..Len(s) : s[i] = SPACE

\* a field that reads as a decimal integer
IsInteger(s) ==
    /\ \E i \in 1..Len(s) : s[i] # SPACE
    /\ \A i \in 1..Len(s) : s[i] = SPACE \/ IsDigit(s[i])
    /\ \A i, j \in 1..Len(s) :
          (i < j /\ s[i] # SPACE /\ s[j] # SPACE) =>
              \A k \in i..j : s[k] # SPACE

ByMovie == ret.fn = "recommend_by_movie"
ByText  == ret.fn = "recommend_by_text"

\* the corpus index of a returned record
IndexOf(r) == IndexOfId(r.id)

NoDuplicates(rs) == \A k, l \in 1..Len(rs) : k # l => rs[k] # rs[l]
FromCorpus(rs)   == \A k \in 1..Len(rs) : \E i \in 1..N : rs[k] = df[i]

\* rs is ordered by descending score
Descending(rs, score) ==
    \A k, l \in 1..Len(rs) :
        k < l => ScoreGe(score[IndexOf(rs[k])], score[IndexOf(rs[l])])

\* equal scores appear in ascending order of corpus index
TiesByIndex(rs, score) ==
    \A k, l \in 1..Len(rs) :
        (k < l /\ ScoreEq(score[IndexOf(rs[k])], score[IndexOf(rs[l])]))
            => IndexOf(rs[k]) < IndexOf(rs[l])

\* equal scores appear in descending order of corpus index
TiesByReverseIndex(rs, score) ==
    \A k, l \in 1..Len(rs) :
        (k < l /\ ScoreEq(score[IndexOf(rs[k])], score[IndexOf(rs[l])]))
            => IndexOf(rs[k]) > IndexOf(rs[l])

\* no item left out scores higher than an item returned
NoneExcluded(rs, score) ==
    \A i \in 1..N :
        (\A k \in 1..Len(rs) : rs[k] # df[i]) =>
            \A k \in 1..Len(rs) : ScoreGe(score[IndexOf(rs[k])], score[i])

\* the diagonal entry of row idx is maximal in its row
DiagonalMaximal(idx) ==
    \A j \in 1..N : ScoreGe(cosine_sim_matrix[idx][idx], cosine_sim_matrix[idx][j])

\* C1 (as claimed): for every item X of the corpus and every top_n >= 0,
\* recommend_by_movie(X.id, top_n) does not contain X, whenever the diagonal
\* entry of X's row is maximal, ties included.
C1_NeverReturnsItself ==
    (ByMovie /\ ret.arg \in Ids /\ DiagonalMaximal(IndexOfId(ret.arg))) =>
        \A k \in 1..Len(ret.value) : ret.value[k].id # ret.arg

\* C2 (as claimed): every POST /recommend ends by rendering or redirecting;
\* a movie_id that is not an integer yields a rendered page with an empty
\* result list, and no exception leaves the handler.
C2_NeverPropagates ==
    \A t \in Threads :
        Served(t) =>
            /\ response[t].kind \in {"render", "redirect"}
            /\ (RawId(t) # <<>> /\ ~IsInteger(RawId(t))) =>
                  (response[t].kind = "render" /\ response[t].results = <<>>)

\* C3 (as claimed): when the query is non-empty after stripping, the rendered
\* results are recommend_by_text(query, 5), whatever movie_id holds.
C3_QueryTakesPrecedence ==
    \A t \in Threads :
        (Served(t) /\ ~IsBlank(RawQuery(t))) =>
            /\ response[t].kind = "render"
            /\ response[t].results =
                  recommend_by_text(strip(RawQuery(t)), HANDLER_TOP_N)

\* C4: a POST /recommend is answered with a redirect to the index route if
\* and only if movie_id is empty or absent and query is empty, absent or
\* whitespace only; a redirect is never a rendered page.
C4_RedirectIffNothingSupplied ==
    \A t \in Threads :
        Served(t) =>
            /\ (response[t].kind = "redirect") <=>
                  (RawId(t) = <<>> /\ IsBlank(RawQuery(t)))
            /\ response[t].kind = "redirect" => response[t].location = "index"

C4_Witness ==
    \E t \in Threads :
        /\ Served(t)
        /\ response[t].kind = "redirect"
        /\ RawQuery(t) # <<>>
        /\ request[t].form = {<<"query", RawQuery(t)>>}

\* C5 (as claimed): for every id of the corpus and every top_n >= 0,
\* recommend_by_movie returns exactly min(top_n, N - 1) items, and when
\* top_n >= N - 1 these are all N - 1 other items.
C5_ExactCount ==
    (ByMovie /\ ret.arg \in Ids) =>
        /\ Len(ret.value) = Min(ret.top_n, N - 1)
        /\ ret.top_n >= N - 1 =>
              { ret.value[k].id : k \in 1..Len(ret.value) } = Ids \ {ret.arg}

\* C6: for every integer that is not the id of a corpus item and every
\* top_n, recommend_by_movie returns the empty list; a POST /recommend with
\* such a movie_id and no query renders the page with no results.
C6_UnknownIdIsEmpty ==
    /\ \A id \in CallIds \ Ids, n \in TopNs : recommend_by_movie(id, n) = <<>>
    /\ \A t \in Threads :
          (Served(t) /\ IsInteger(RawId(t)) /\ int(RawId(t)) \notin Ids
                     /\ IsBlank(RawQuery(t))) =>
              (response[t].kind = "render" /\ response[t].results = <<>>)

C6_Witness ==
    \E t \in Threads :
        /\ Served(t)
        /\ IsInteger(RawId(t))
        /\ int(RawId(t)) \notin Ids
        /\ IsBlank(RawQuery(t))
        /\ response[t].kind = "render"
        /\ N >= 2

C8_MovieOrderStable ==
    (ByMovie /\ ret.arg \in Ids) =>
        /\ Descending(ret.value, cosine_sim_matrix[IndexOfId(ret.arg)])
        /\ TiesByIndex(ret.value, cosine_sim_matrix[IndexOfId(ret.arg)])

C8_Witness ==
    /\ ByMovie
    /\ ret.arg \in Ids
    /\ Len(ret.value) >= 3
    /\ \E k \in 1..(Len(ret.value) - 2) :
          LET row == cosine_sim_matrix[IndexOfId(ret.arg)]
          IN  /\ ScoreGt(row[IndexOf(ret.value[k])], row[IndexOf(ret.value[k + 1])])
              /\ ScoreEq(row[IndexOf(ret.value[k + 1])], row[IndexOf(ret.value[k + 2])])

\* two threads that answered the same request answered the same
SameInputSameResult ==
    \A t, u \in Threads :
        (pc[t] = "done" /\ pc[u] = "done" /\ request[t] = request[u]) =>
            response[t] = response[u]

\* C9: after the build no step of any request, in any interleaving, changes
\* the movie list, the derived text, the fitted vectorizer, the TF-IDF
\* matrix or the similarity matrix, and identical request input yields the
\* identical ordered result.
C9_CorpusImmutable ==
    /\ [][corpus' = corpus]_vars
    /\ []SameInputSameResult

C9_Witness ==
    \E t, u \in Threads :
        /\ t # u
        /\ Served(t) /\ Served(u)
        /\ request[t] = request[u]
        /\ response[t].kind = "render"
        /\ Len(response[t].results) >= 1
        /\ RawId(t) # <<>>
        /\ IsBlank(RawQuery(t))

\* C10: every results list rendered by POST /recommend holds at most 5
\* entries, each a record of the corpus, none twice; when the query is
\* non-empty the list holds exactly min(5, N) entries, even if every
\* similarity score is zero.
C10_RenderedListBounded ==
    \A t \in Threads :
        (Served(t) /\ response[t].kind = "render") =>
            /\ Len(response[t].results) <= HANDLER_TOP_N
            /\ FromCorpus(response[t].results)
            /\ NoDuplicates(response[t].results)
            /\ ~IsBlank(RawQuery(t)) =>
                  Len(response[t].results) = Min(HANDLER_TOP_N, N)

C10_Witness ==
    \E t \in Threads :
        /\ Served(t)
        /\ response[t].kind = "render"
        /\ ~IsBlank(RawQuery(t))
        /\ N > HANDLER_TOP_N
        /\ Len(response[t].results) = HANDLER_TOP_N
        /\ \A i \in 1..N : ScoreEq(TextSims(strip(RawQuery(t)))[i], Zero)
====
